---- MODULE Spec2Model ----
(***************************************************************************)
(* State-machine model of the Gradescope submission workflow               *)
(* (gradescope_autosubmitter/core.py): SessionManager and                  *)
(* GradescopeSubmitter.submit_to_gradescope / _wait_for_grade, plus the    *)
(* debug_session command of cli.py that probes without a page.             *)
(*                                                                         *)
(* Texts are sequences of one-character strings so that lower(), strip()   *)
(* and the `in` substring test are computed, not assumed.                  *)
(***************************************************************************)
EXTENDS Integers, Sequences, FiniteSets, TLC

(***************************************************************************)
(* Bounds of the model.                                                    *)
(***************************************************************************)
\* longest list of course cards / links / buttons enumerated generically
MaxCards == 2
\* largest number of elements a strict-mode violation reports
MaxResolved == 4

(***************************************************************************)
(* Program constants.                                                      *)
(***************************************************************************)
\* how many times in a row the cleanup command is run
MaxCleanups == 2

\* core.py:427  max_attempts = 48
max_attempts == 48
\* core.py:233  wait_for_selector("a.courseBox", timeout=300000), in seconds
manual_login_timeout == 300
\* core.py:447  asyncio.sleep(5)
poll_sleep == 5

(***************************************************************************)
(* Text: str.lower(), str.strip(), `a in b`, str.startswith.               *)
(***************************************************************************)
UpperChars == <<"A","B","C","D","E","F","G","H","I","J","K","L","M",
                "N","O","P","Q","R","S","T","U","V","W","X","Y","Z">>
LowerChars == <<"a","b","c","d","e","f","g","h","i","j","k","l","m",
                "n","o","p","q","r","s","t","u","v","w","x","y","z">>

\* the lower-case letter of each upper-case letter
LowerOf ==
    [ c \in { UpperChars[i] : i \in 1..26 } |->
        LowerChars[CHOOSE i \in 1..26 : UpperChars[i] = c] ]

LowerChar(c) == IF c \in DOMAIN LowerOf THEN LowerOf[c] ELSE c

\* str.lower()
Lower(s) == [i \in 1..Len(s) |-> LowerChar(s[i])]

IsSpace(c) == c \in {" ", "\t", "\n"}

RECURSIVE LStrip(_)
LStrip(s) == IF s # <<>> /\ IsSpace(Head(s)) THEN LStrip(Tail(s)) ELSE s

RECURSIVE RStrip(_)
RStrip(s) ==
    IF s # <<>> /\ IsSpace(s[Len(s)]) THEN RStrip(SubSeq(s, 1, Len(s) - 1)) ELSE s

\* str.strip()
Strip(s) == RStrip(LStrip(s))

\* str.startswith(p)
StartsWith(s, p) == Len(p) <= Len(s) /\ SubSeq(s, 1, Len(p)) = p

\* Python `q in s` on strings (contiguous substring; "" is in every string)
RECURSIVE In(_, _)
In(q, s) ==
    IF StartsWith(s, q) THEN TRUE
    ELSE IF s = <<>> THEN FALSE
    ELSE In(q, Tail(s))

\* Python truthiness of a str
Truthy(s) == s # <<>>


(***************************************************************************)
(* Exceptions are their message text, a sequence of words, so that the     *)
(* handlers' `"..." in str(e)` tests are substring tests on the message.   *)
(***************************************************************************)
NoError == <<"<none>">>

Digits == <<"1","2","3","4","5","6","7","8","9">>

\* Playwright: an operation on a closed page, context or browser
TargetClosedError ==
    <<"Target", "page,", "context", "or", "browser", "has", "been", "closed">>
\* Playwright: the connection to the browser was lost
ProtocolError == <<"Protocol", "error", "(Page.navigate):", "Target", "closed">>
\* Playwright: a wait ran out of time
TimeoutError == <<"Timeout", "exceeded">>
\* Playwright: a strict locator resolved to n > 1 elements
StrictModeError(n) ==
    <<"strict", "mode", "violation:", "resolved", "to", Digits[n], "elements">>
\* the driver could not launch the browser
LaunchError == <<"Executable", "doesn't", "exist">>
\* Python: a local read before assignment (core.py:121)
UnboundLocalError == <<"local", "variable", "referenced", "before", "assignment">>
\* input() on a closed stdin (core.py:382)
EOFError == <<"EOF", "when", "reading", "a", "line">>

\* core.py:236
ManualLoginTimeout == <<"Manual", "login", "timed", "out", "or", "failed">>
\* core.py:310
CourseNotFound == <<"Could", "not", "find", "course", "matching">>
\* core.py:338
AssignmentNotFound == <<"Could", "not", "find", "assignment", "matching">>
\* core.py:349
NoSubmitControl == <<"Could", "not", "locate", "a", "submission", "button.">>
\* core.py:360
NoPriorSubmissionExists == <<"This", "assignment", "has", "no", "previous", "submissions.">>
\* core.py:391
SessionInterrupted == <<"Submission", "interrupted", "-", "browser", "was", "closed">>
\* core.py:395
ConnectionLost == <<"Submission", "failed", "-", "browser", "connection", "lost">>

\* an except clause that gives every exception a name of its own
OuterHandler_wrap_all(e) ==
    IF In(TargetClosedError, e) THEN SessionInterrupted
    ELSE IF In(<<"Protocol", "error">>, e) /\ In(<<"Target", "closed">>, e)
         THEN ConnectionLost
    ELSE IF In(<<"Timeout">>, e) THEN <<"Upload", "timed", "out">>
    ELSE e

\* core.py:386-398: the except clause of submit_to_gradescope
OuterHandler(e) ==
    IF In(TargetClosedError, e) THEN SessionInterrupted
    ELSE IF In(<<"Protocol", "error">>, e) /\ In(<<"Target", "closed">>, e)
         THEN ConnectionLost
    ELSE e

\* a handler that renames every strict-mode violation
FileInputHandler_any_count(e) ==
    IF In(<<"strict", "mode", "violation:">>, e) THEN NoPriorSubmissionExists ELSE e

\* core.py:358-362: the except clause around file_input.wait_for
FileInputHandler(e) ==
    IF In(<<"strict", "mode", "violation:">>, e)
       /\ In(<<"resolved", "to", "3", "elements">>, e)
    THEN NoPriorSubmissionExists
    ELSE e

(***************************************************************************)
(* Addresses are sequences of segments; startswith and `in` work on them.  *)
(***************************************************************************)
PortalOrigin == <<"https://", "www.", "gradescope.com.au">>
PortalAuth == PortalOrigin \o <<"/auth">>
SamlUrl == PortalOrigin \o <<"/auth", "/saml/", "qut">>
PortalHome == PortalOrigin \o <<"/account">>
PortalAsset == PortalOrigin \o <<"/assets", "/app.js">>
PortalPack == PortalOrigin \o <<"/packs", "/app.js">>
CdnAsset == <<"https://", "cdn.", "gradescope.com.au", "/app.css">>
IdpLogin == <<"https://", "esoe.", "qut.edu.au", "/login">>
PortalHomeFromIdp == PortalOrigin \o <<"/account", "?from=", "qut.edu.au">>
NoUrl == <<>>


(***************************************************************************)
(* The portal's pages, as the selectors of core.py see them.               *)
(***************************************************************************)
\* a course card without an h3.courseBox--shortname child (core.py:297)
NoElem == <<"<no element>">>

CAB201 == <<"C","A","B","2","0","1">>
CAB202 == <<"C","A","B","2","0","2">>
CAB203 == <<"C","A","B","2","0","3">>
cab202 == <<"c","a","b","2","0","2">>
Resubmit == <<"R","e","s","u","b","m","i","t">>
A1 == <<"A","1">>
A10 == <<"A","1","0">>
a1 == <<"a","1">>
Blank == <<" ">>
Empty == <<>>

\* all sequences over S of length at most n
RECURSIVE SeqsUpTo(_, _)
SeqsUpTo(S, n) ==
    IF n = 0 THEN {<<>>}
    ELSE LET shorter == SeqsUpTo(S, n - 1)
         IN  shorter \cup {Append(q, x) : q \in shorter, x \in S}

Button(text, visible) == [text |-> text, visible |-> visible]

\* inner texts of h3.courseBox--shortname (or no such child)
CourseNames == {NoElem, Blank, <<" ","A","b">>, <<"b"," ">>}
CourseQueries == {Empty, <<"a","B">>, <<"B">>}
CourseLists == SeqsUpTo(CourseNames, MaxCards) \cup {<<CAB201, CAB202, CAB203>>}

\* inner texts of a[href*="/assignments/"]
LinkTexts == {Blank, <<"A","1"," ">>}
LinkLists == SeqsUpTo(LinkTexts, MaxCards)
\* button.js-submitAssignment elements of a course page
CourseButtons == {Button(A10, TRUE), Button(<<" ", "a", "1">>, FALSE)}
\* ... and a course page showing the controls of two assignments, one of
\* them already submitted to
SeveralAssignments ==
    { <<Button(Resubmit, TRUE), Button(A10, TRUE)>>,
      <<Button(A10, TRUE), Button(Resubmit, TRUE)>> }
CourseButtonLists == SeqsUpTo(CourseButtons, MaxCards) \cup SeveralAssignments
\* button.js-submitAssignment elements of an assignment page
AssignmentButtons ==
    {Button(A10, TRUE), Button(Resubmit, TRUE), Button(Resubmit, FALSE), Button(a1, FALSE)}
AssignmentButtonLists == SeqsUpTo(AssignmentButtons, MaxCards)
AssignmentQueries == {Empty, a1, <<"1","0">>}

DefaultPortal ==
    [ courses            |-> <<CAB201, CAB202, CAB203>>,
      links              |-> <<A1, A10>>,
      course_buttons     |-> <<>>,
      assignment_buttons |-> <<Button(Resubmit, TRUE)>>,
      file_inputs        |-> 1 ]

DefaultArgs ==
    [ cmd |-> "submit", course |-> cab202, assignment |-> a1,
      fresh_login |-> TRUE, manual_login |-> FALSE, headless |-> TRUE,
      notify_when_graded |-> FALSE, entry |-> "api" ]

\* cli.py:230-234  the headless and fresh_login the submit command hands to
\* the constructor (a manual-login run gets False and True whatever the
\* flags say); a direct caller ("api") hands over its own
ctor_headless(a) ==
    IF a.entry = "cli" /\ a.manual_login THEN FALSE ELSE a.headless

ctor_fresh_login(a) ==
    IF a.entry = "cli" /\ a.manual_login THEN TRUE ELSE a.fresh_login

\* a constructor that looks at the fresh_login flag only
SessionFresh_flag_only(fresh_login, manual_login) == fresh_login

\* core.py:140  SessionManager(fresh_login or manual_login)
SessionFresh(fresh_login, manual_login) == fresh_login \/ manual_login

(***************************************************************************)
(* State.                                                                  *)
(***************************************************************************)
VARIABLES
    pc,               \* position of the command's coroutine
    args,             \* command line / constructor arguments
    portal,           \* what the portal serves
    session_dir,      \* TRUE iff SessionManager.session_dir exists on disk
    sm_fresh_login,   \* SessionManager.fresh_login
    playwright,       \* the driver: "none", "started", "stopped"
    browser,          \* browser handle: "None", "connected", "closed"
    context,          \* browser context: "none", "open", "closed"
    context_pages,    \* len(context.pages)
    durable,          \* the context is backed by session_dir
    needs_login,      \* core.py:207
    current_url,      \* core.py:208
    course_label,     \* core.py:293
    assignment_label, \* core.py:313
    attempt,          \* the i of core.py:431
    grade_text,       \* core.py:440 (NoElem: no grade element)
    poll,             \* "none", "polling", "sleeping", "found", "timed_out", "stopped"
    raised,           \* exception leaving the command, NoError if none
    other,            \* another run of the tool on the same machine
    ev                \* history of what the run did (for the properties)

vars == << pc, args, portal, session_dir, sm_fresh_login, playwright, browser,
           context, context_pages, durable, needs_login, current_url,
           course_label, assignment_label, attempt, grade_text, poll, raised,
           other, ev >>

\* what the run's own steps never change
inputs == << args, portal, other >>
session == << playwright, browser, context, context_pages, durable >>
locals == << needs_login, current_url, course_label, assignment_label >>
polling == << attempt, grade_text, poll >>

NoEvents ==
    [ stops |-> 0, closes |-> 0, ext_closes |-> 0, in_try |-> FALSE,
      failed_at |-> "none", reported |-> 0,
      probes |-> 0, probe |-> "none", probe_fail |-> "none",
      idp_gotos |-> 0, landed |-> "none", filled |-> FALSE,
      login_clicks |-> 0, landmark |-> FALSE, last_error |-> NoError,
      course_scans |-> 0, course_href |-> 0, link_href |-> 0,
      link_scans |-> 0, button_scans |-> 0, scanned |-> "none",
      control |-> "none", control_idx |-> 0, attaches |-> 0, upload_clicks |-> 0,
      submitted |-> FALSE, reloads |-> 0, sleeps |-> 0, slept |-> 0,
      enter_waits |-> 0, manual_wait |-> 0, had_dir |-> FALSE, cleanups |-> 0,
      probe_final |-> NoUrl, landmark_waits |-> 0,
      launches |-> 0, pages_made |-> 0, max_pages |-> 0,
      close_failed |-> FALSE, stop_failed |-> FALSE, button_idx |-> 0 ]

\* no second run / a second run about to be started: its position, the
\* fresh_login of its SessionManager and the kind of context it holds
NoOther == [pc |-> "absent", fresh_login |-> FALSE, context |-> "none"]
OtherAtStart == [pc |-> "start", fresh_login |-> FALSE, context |-> "none"]

InitRest ==
    /\ pc = "start"
    /\ sm_fresh_login = FALSE
    /\ playwright = "none" /\ browser = "None" /\ context = "none"
    /\ context_pages = 0 /\ durable = FALSE
    /\ needs_login = TRUE /\ current_url = NoUrl
    /\ course_label = Empty /\ assignment_label = Empty
    /\ attempt = 0 /\ grade_text = NoElem /\ poll = "none"
    /\ raised = NoError
    /\ ev = NoEvents

\* every combination of flags and commands against the default portal
InitFlags ==
    /\ args \in { [DefaultArgs EXCEPT !.cmd = c, !.fresh_login = f, !.manual_login = m,
                                      !.headless = h, !.notify_when_graded = n,
                                      !.entry = e] :
                  c \in {"submit", "debug_session", "cleanup"}, f \in BOOLEAN, m \in BOOLEAN,
                  h \in BOOLEAN, n \in BOOLEAN, e \in {"api", "cli"} }
    /\ args.cmd \in {"debug_session", "cleanup"} =>
          /\ ~args.fresh_login /\ ~args.manual_login /\ ~args.headless
          /\ ~args.notify_when_graded /\ args.entry = "cli"
    \* without manual login the submit command passes its flags through
    \* unchanged (cli.py:234): that run is the direct caller's run
    /\ (args.cmd = "submit" /\ args.entry = "cli") => args.manual_login
    /\ portal = DefaultPortal
    /\ session_dir \in BOOLEAN
    /\ other = NoOther

\* every course query against every list of course cards
InitCourses ==
    /\ args \in { [DefaultArgs EXCEPT !.course = q] : q \in CourseQueries \cup {cab202} }
    /\ portal \in { [DefaultPortal EXCEPT !.courses = cs] : cs \in CourseLists }
    /\ session_dir = TRUE
    /\ other = NoOther

\* every assignment query against every list of links and of buttons
InitAssignments ==
    /\ args \in { [DefaultArgs EXCEPT !.assignment = q] : q \in AssignmentQueries }
    /\ portal \in { [DefaultPortal EXCEPT !.links = ls, !.course_buttons = bs,
                                          !.assignment_buttons = abs] :
                    ls \in LinkLists, bs \in CourseButtonLists,
                    abs \in {<<Button(Resubmit, TRUE)>>, <<Button(A10, TRUE)>>} }
    /\ session_dir = TRUE
    /\ other = NoOther

\* every set of submit controls and every number of file inputs
InitSubmission ==
    /\ args = DefaultArgs
    /\ portal \in { [DefaultPortal EXCEPT !.assignment_buttons = bs, !.file_inputs = n] :
                    bs \in AssignmentButtonLists, n \in 0..MaxResolved }
    /\ session_dir = TRUE
    /\ other = NoOther

\* a non-fresh run with a second run of the tool started beside it; both
\* use the one profile directory ~/.gradescope_session (core.py:29)
InitConcurrent ==
    /\ args = [DefaultArgs EXCEPT !.fresh_login = FALSE]
    /\ portal = DefaultPortal
    /\ session_dir = TRUE
    /\ other = OtherAtStart

Init ==
    /\ InitRest
    /\ \/ InitFlags
       \/ InitCourses
       \/ InitAssignments
       \/ InitSubmission
       \/ InitConcurrent


(***************************************************************************)
(* The environment: how an awaited browser operation can fail.  A failure  *)
(* carries the message Playwright raises and what was closed behind the    *)
(* program's back: nothing, every page of the context, or the whole        *)
(* session (browser and context).                                          *)
(***************************************************************************)
Failure(msg, closes) == [msg |-> msg, closes |-> closes]

PageUsable == context = "open" /\ context_pages > 0

\* failures of an operation on the working page
PageFailures ==
    IF PageUsable
    THEN { Failure(TimeoutError, "none"), Failure(TargetClosedError, "session"),
           Failure(TargetClosedError, "pages"), Failure(ProtocolError, "session") }
    ELSE { Failure(TargetClosedError, "none") }

\* failures of an operation on the context itself
ContextFailures ==
    IF context = "open"
    THEN { Failure(TargetClosedError, "session"), Failure(ProtocolError, "session") }
    ELSE { Failure(TargetClosedError, "none") }

\* the session after failure f
Closure(f) ==
    /\ browser' = IF f.closes = "session" /\ browser = "connected" THEN "closed" ELSE browser
    /\ context' = IF f.closes = "session" THEN "closed" ELSE context
    /\ context_pages' = IF f.closes \in {"session", "pages"} THEN 0 ELSE context_pages
    /\ UNCHANGED << playwright, durable >>

Noted(e, f) ==
    [e EXCEPT !.ext_closes = @ + (IF f.closes = "session" THEN 1 ELSE 0)]

(***************************************************************************)
(* SessionManager                                                          *)
(***************************************************************************)
\* a constructor that keeps the profile directory
SessionManager_init_keep(fresh_login) ==
    /\ sm_fresh_login' = fresh_login
    /\ session_dir' = session_dir

\* core.py:37-40  the directory after the constructor: removed when
\* fresh_login is set and it exists
rmtree_if_fresh(fresh_login, exists) ==
    IF fresh_login /\ exists THEN FALSE ELSE exists

\* SessionManager.__init__(fresh_login)
SessionManager_init(fresh_login) ==
    /\ sm_fresh_login' = fresh_login
    /\ session_dir' = rmtree_if_fresh(fresh_login, session_dir)

\* core.py:138  self.headless
self_headless == ctor_headless(args)

\* GradescopeSubmitter.__init__
GradescopeSubmitter_init ==
    /\ pc = "start" /\ args.cmd = "submit"
    /\ SessionManager_init(SessionFresh(ctor_fresh_login(args), args.manual_login))
    /\ pc' = "get_context"
    /\ ev' = [ev EXCEPT !.had_dir = session_dir]
    /\ UNCHANGED << inputs, session, locals, polling, raised >>

\* cli.py debug_session: session_manager = SessionManager()
debug_session_init ==
    /\ pc = "start" /\ args.cmd = "debug_session"
    /\ SessionManager_init(FALSE)
    /\ pc' = "get_context"
    /\ ev' = [ev EXCEPT !.had_dir = session_dir]
    /\ UNCHANGED << inputs, session, locals, polling, raised >>

\* a durable branch that forgot to create the directory
mkdir_no_op(exists) == exists

\* core.py:54  self.session_dir.mkdir(parents=True, exist_ok=True)
mkdir(exists) == TRUE

\* core.py:58-59  launch_persistent_context(user_data_dir=...): the browser
\* refuses a profile directory that another live browser holds
ProfileInUse(held) == held

\* SessionManager.get_browser_context (core.py:42-69): the driver is started,
\* then the browser is launched (fresh) or the profile directory is made and a
\* persistent context launched on it; a failed launch leaves the started
\* driver to the caller, who never receives it.
get_browser_context ==
    /\ pc = "get_context"
    /\ \/ \* async_playwright().start() raises
          /\ raised' = LaunchError
          /\ ev' = [ev EXCEPT !.last_error = LaunchError, !.failed_at = "start_driver"]
          /\ pc' = "returned"
          /\ UNCHANGED << session, session_dir >>
       \/ /\ playwright' = "started"
          /\ session_dir' = IF sm_fresh_login THEN session_dir ELSE mkdir(session_dir)
          /\ \/ /\ sm_fresh_login \/ ~ProfileInUse(other.context = "durable")
                /\ IF sm_fresh_login
                   THEN browser' = "connected" /\ durable' = FALSE
                   ELSE browser' = "None" /\ durable' = TRUE
                /\ context' = "open"
                /\ context_pages' = 0
                /\ pc' = IF args.cmd = "submit" THEN "new_page" ELSE "debug_probe"
                /\ ev' = [ev EXCEPT !.launches = @ + 1]
                /\ UNCHANGED raised
             \/ \* the launch raises
                /\ raised' = LaunchError
                /\ ev' = [ev EXCEPT !.last_error = LaunchError, !.failed_at = "launch"]
                /\ pc' = "returned"
                /\ UNCHANGED << browser, context, context_pages, durable >>
    /\ UNCHANGED << inputs, sm_fresh_login, locals, polling >>

\* core.py:83-93 handle_response: the filter of the response listener
IsMainPageResponse(url) ==
    /\ Truthy(url)
    /\ StartsWith(url, PortalOrigin)
    /\ ~StartsWith(url, PortalOrigin \o <<"/assets">>)
    /\ ~StartsWith(url, PortalOrigin \o <<"/packs">>)
    /\ ~StartsWith(url, <<"https://", "cdn.", "gradescope.com.au">>)
    /\ ~In(<<"qut.edu.au">>, url)
    /\ ~In(<<"/auth", "/saml/">>, url)

\* redirect_url after the listener saw the responses in order
RECURSIVE RedirectUrl(_)
RedirectUrl(responses) ==
    IF responses = <<>> THEN NoUrl
    ELSE LET last == responses[Len(responses)]
         IN  IF IsMainPageResponse(last) THEN last
             ELSE RedirectUrl(SubSeq(responses, 1, Len(responses) - 1))

Returned(logged_in, url) == [raises |-> NoError, logged_in |-> logged_in, url |-> url]
Raised(msg) == [raises |-> msg, logged_in |-> FALSE, url |-> NoUrl]

\* core.py:109-118: the classification at the end of is_logged_in
ClassifyLogin(redirect_url, url) ==
    IF Truthy(redirect_url) /\ StartsWith(redirect_url, PortalOrigin)
       /\ ~StartsWith(redirect_url, PortalAuth)
    THEN Returned(TRUE, redirect_url)
    ELSE IF StartsWith(url, PortalOrigin) /\ ~StartsWith(url, PortalAuth)
            /\ ~In(<<"qut.edu.au">>, url)
    THEN Returned(TRUE, url)
    ELSE Returned(FALSE, NoUrl)

\* what the probe can observe: the responses seen and the address after the wait
ProbeObservations ==
    { [responses |-> <<SamlUrl, PortalHome, PortalAsset, CdnAsset>>, final |-> PortalHome],
      [responses |-> <<SamlUrl, IdpLogin>>, final |-> IdpLogin],
      [responses |-> <<SamlUrl>>, final |-> SamlUrl],
      [responses |-> <<SamlUrl, PortalHomeFromIdp, PortalPack>>, final |-> PortalHomeFromIdp],
      [responses |-> <<PortalHome, IdpLogin>>, final |-> IdpLogin] }

ProbeSteps == {"new_page", "goto", "wait", "close"}

\* SessionManager.is_logged_in(context, page): fail_at names the awaited call
\* that raises ("none": no call raises), handler_close_ok tells whether the
\* page.close() of the except clause succeeds.
is_logged_in(page_supplied, fail_at, handler_close_ok, obs) ==
    LET should_close_page == ~page_supplied IN
    IF fail_at = "new_page" /\ ~page_supplied
    THEN \* core.py:121 reads should_close_page, which line 77 never assigned
         Raised(UnboundLocalError)
    ELSE IF fail_at \in {"goto", "wait"} \/ (fail_at = "close" /\ should_close_page)
    THEN IF should_close_page /\ ~handler_close_ok
         THEN Raised(TargetClosedError)
         ELSE Returned(FALSE, NoUrl)
    ELSE ClassifyLogin(RedirectUrl(obs.responses), obs.final)


(***************************************************************************)
(* GradescopeSubmitter.submit_to_gradescope                                *)
(***************************************************************************)
\* a run that attaches the file again when the upload confirmation failed
AfterFailure_retry(at) == IF at = "click_upload" THEN "attach" ELSE "finally"

\* core.py:386-400  where an exception raised at `at` inside the try block
\* leads: through the except clause to the finally clause
AfterFailure(at) == "finally"

\* an exception inside the try block: the except clause, then on to finally
TryFail(f, e) ==
    /\ Closure(f)
    /\ raised' = OuterHandler(f.msg)
    /\ ev' = [Noted(e, f) EXCEPT !.last_error = f.msg, !.failed_at = pc]
    /\ pc' = AfterFailure(pc)

\* an exception the code raises itself inside the try block
TryRaise(msg, e) ==
    /\ raised' = OuterHandler(msg)
    /\ ev' = [e EXCEPT !.last_error = msg, !.failed_at = pc]
    /\ pc' = AfterFailure(pc)
    /\ UNCHANGED session

\* a run that probes whatever the flag says
ProbeNeeded_always(fresh_login) == TRUE

\* core.py:209  if not self.session_manager.fresh_login
ProbeNeeded(fresh_login) == ~fresh_login

\* the history after a page was opened on the context
PageOpened(e) ==
    [e EXCEPT !.pages_made = @ + 1,
              !.max_pages = IF context_pages + 1 > @ THEN context_pages + 1 ELSE @]

\* a session check that lets the probe open a page of its own
PageSupplied_never(cmd) == FALSE

\* core.py:211 is_logged_in(context, page) hands the working page to the
\* probe; cli.py:406 is_logged_in(context) does not
PageSupplied(cmd) == cmd = "submit"

\* core.py:75-78  the probe opens (and later closes) a page of its own when
\* none was supplied
ProbePages(e, page_supplied, fail_at) ==
    IF page_supplied \/ fail_at = "new_page" THEN e ELSE PageOpened(e)

\* core.py:205  page = await context.new_page()   (before the try block)
NewPage ==
    /\ pc = "new_page"
    /\ \/ /\ context = "open"
          /\ context_pages' = context_pages + 1
          /\ pc' = IF ProbeNeeded(sm_fresh_login) THEN "check_session" ELSE "try"
          /\ ev' = PageOpened(ev)
          /\ UNCHANGED << playwright, browser, context, durable, raised >>
       \/ \E f \in ContextFailures :
            /\ Closure(f)
            /\ raised' = f.msg
            /\ ev' = [Noted(ev, f) EXCEPT !.last_error = f.msg, !.failed_at = pc]
            /\ pc' = "returned"
    /\ UNCHANGED << inputs, session_dir, sm_fresh_login, locals, polling >>

\* what a probe's outcome is recorded as
ProbeResult(r) ==
    IF r.raises # NoError THEN "raised"
    ELSE IF r.logged_in THEN "Authenticated" ELSE "Unauthenticated"

\* core.py:209-216  the session check before the try block
CheckSession ==
    /\ pc = "check_session"
    /\ \E fail_at \in {"none", "goto", "wait"}, f \in PageFailures,
          ok \in BOOLEAN, obs \in ProbeObservations :
         LET page_supplied == PageSupplied(args.cmd)
             r == is_logged_in(page_supplied, fail_at, ok, obs)
             probed == [ProbePages(ev, page_supplied, fail_at)
                          EXCEPT !.probes = @ + 1, !.probe = ProbeResult(r),
                                 !.probe_fail = fail_at,
                                 !.probe_final = IF fail_at = "none" THEN obs.final
                                                 ELSE NoUrl]
         IN
         /\ fail_at = "none" => PageUsable
         /\ IF fail_at = "none"
            THEN UNCHANGED session /\ ev' = probed
            ELSE Closure(f) /\ ev' = Noted(probed, f)
         /\ IF r.raises # NoError
            THEN /\ raised' = r.raises
                 /\ pc' = "returned"
                 /\ UNCHANGED << needs_login, current_url >>
            ELSE /\ raised' = raised
                 /\ current_url' = r.url
                 /\ needs_login' = ~r.logged_in
                 /\ pc' = "try"
    /\ UNCHANGED << inputs, session_dir, sm_fresh_login, course_label,
                    assignment_label, polling >>

\* core.py:223-226  manual login: open the identity provider's entry point
ManualLoginGoto ==
    /\ pc = "try" /\ args.manual_login
    /\ \/ /\ PageUsable
          /\ ev' = [ev EXCEPT !.in_try = TRUE, !.idp_gotos = @ + 1]
          /\ pc' = "manual_wait"
          /\ UNCHANGED << session, raised >>
       \/ \E f \in PageFailures :
            /\ TryFail(f, [ev EXCEPT !.in_try = TRUE, !.idp_gotos = @ + 1])
    /\ UNCHANGED << inputs, session_dir, sm_fresh_login, needs_login, current_url,
                    course_label, assignment_label, polling >>

\* a handler that lets the exception of the wait through
ManualLoginHandler_reraise(e) == e

\* core.py:235-236  the bare except turns every exception of the wait into
\* the manual-login error
ManualLoginHandler(e) == ManualLoginTimeout

\* seconds the manual-login wait can have lasted when it ends with error e
ManualWaitSeconds(e) ==
    IF e = TimeoutError THEN {manual_login_timeout}
    ELSE {0, manual_login_timeout - 1}

\* core.py:232-236  wait (300 s) for a.courseBox
ManualLoginWait ==
    /\ pc = "manual_wait"
    /\ \/ /\ PageUsable
          /\ \E t \in ManualWaitSeconds(NoError) :
               ev' = [ev EXCEPT !.landmark = TRUE, !.manual_wait = t,
                                !.landmark_waits = @ + 1]
          /\ pc' = "find_course"
          /\ UNCHANGED << session, raised >>
       \/ \E f \in PageFailures : \E t \in ManualWaitSeconds(f.msg) :
            /\ Closure(f)
            /\ raised' = OuterHandler(ManualLoginHandler(f.msg))
            /\ ev' = [Noted(ev, f) EXCEPT !.last_error = f.msg, !.failed_at = pc,
                                          !.manual_wait = t, !.landmark_waits = @ + 1]
            /\ pc' = "finally"
    /\ UNCHANGED << inputs, session_dir, sm_fresh_login, needs_login, current_url,
                    course_label, assignment_label, polling >>

\* a login stage that fills the form wherever the page landed
LoginPageReached_always(url) == TRUE

\* core.py:243  "qut.edu.au" in page.url
LoginPageReached(url) == In(<<"qut.edu.au">>, url)

\* core.py:238-243  automated login: go to the SAML entry point and look at
\* where the page ended up
LoginGoto ==
    /\ pc = "try" /\ ~args.manual_login /\ needs_login
    /\ \/ /\ PageUsable
          /\ \E landed \in {IdpLogin, PortalHome} :
               /\ pc' = IF LoginPageReached(landed) THEN "fill" ELSE "find_course"
               /\ ev' = [ev EXCEPT !.in_try = TRUE, !.idp_gotos = @ + 1,
                                   !.landed = IF landed = IdpLogin THEN "idp" ELSE "portal"]
          /\ UNCHANGED << session, raised >>
       \/ \E f \in PageFailures :
            /\ TryFail(f, [ev EXCEPT !.in_try = TRUE, !.idp_gotos = @ + 1])
    /\ UNCHANGED << inputs, session_dir, sm_fresh_login, needs_login, current_url,
                    course_label, assignment_label, polling >>

\* core.py:245-247  wait for the form, fill in identity and secret
FillCredentials ==
    /\ pc = "fill"
    /\ \/ /\ PageUsable
          /\ ev' = [ev EXCEPT !.filled = TRUE]
          /\ pc' = "remember"
          /\ UNCHANGED << session, raised >>
       \/ \E f \in PageFailures : TryFail(f, ev)
    /\ UNCHANGED << inputs, session_dir, sm_fresh_login, locals, polling >>

\* core.py:250-270  best-effort "remember me": every exception is swallowed
RememberMe ==
    /\ pc = "remember"
    /\ \/ UNCHANGED << session, ev >>
       \/ \E f \in PageFailures : Closure(f) /\ ev' = Noted(ev, f)
    /\ pc' = "click_login"
    /\ UNCHANGED << inputs, session_dir, sm_fresh_login, locals, polling, raised >>

\* core.py:272  submit the login form
SubmitLogin ==
    /\ pc = "click_login"
    /\ \/ /\ PageUsable
          /\ ev' = [ev EXCEPT !.login_clicks = @ + 1]
          /\ pc' = "await_landmark"
          /\ UNCHANGED << session, raised >>
       \/ \E f \in PageFailures : TryFail(f, ev)
    /\ UNCHANGED << inputs, session_dir, sm_fresh_login, locals, polling >>

\* core.py:273  wait for a.courseBox after the login
AwaitLandmark ==
    /\ pc = "await_landmark"
    /\ \/ /\ PageUsable
          /\ ev' = [ev EXCEPT !.landmark = TRUE, !.landmark_waits = @ + 1]
          /\ pc' = "find_course"
          /\ UNCHANGED << session, raised >>
       \/ \E f \in PageFailures : TryFail(f, [ev EXCEPT !.landmark_waits = @ + 1])
    /\ UNCHANGED << inputs, session_dir, sm_fresh_login, needs_login, current_url,
                    course_label, assignment_label, polling >>

\* core.py:275-289  already logged in: wait (5 s) for a.courseBox on the page
\* the session check left; a failure of that wait is swallowed, the page is
\* reloaded and the wait made once more
ExistingSession ==
    /\ pc = "try" /\ ~args.manual_login /\ ~needs_login
    /\ LET entered == [ev EXCEPT !.in_try = TRUE] IN
       IF Truthy(current_url) /\ In(<<"gradescope.com.au">>, current_url)
       THEN \/ /\ PageUsable
               /\ ev' = [entered EXCEPT !.landmark = TRUE, !.landmark_waits = 1]
               /\ pc' = "find_course"
               /\ UNCHANGED << session, raised >>
            \/ \* the first wait failed with f1
               \E f1 \in PageFailures :
                 \/ \* page.reload() raises
                    \E f2 \in PageFailures :
                      /\ f1.closes # "none" => f2 = Failure(TargetClosedError, f1.closes)
                      /\ TryFail(f2, [entered EXCEPT !.landmark_waits = 1])
                 \/ \* the reload went through, the second wait sees the landmark
                    /\ f1.closes = "none" /\ PageUsable
                    /\ ev' = [entered EXCEPT !.landmark = TRUE, !.landmark_waits = 2]
                    /\ pc' = "find_course"
                    /\ UNCHANGED << session, raised >>
                 \/ \* the reload went through, the second wait raises
                    /\ f1.closes = "none" /\ PageUsable
                    /\ \E f2 \in PageFailures :
                         TryFail(f2, [entered EXCEPT !.landmark_waits = 2])
       ELSE \* go to the portal's home page, wait for a.courseBox
            \/ /\ PageUsable
               /\ ev' = [entered EXCEPT !.landmark = TRUE, !.landmark_waits = 1]
               /\ pc' = "find_course"
               /\ UNCHANGED << session, raised >>
            \/ \E f \in PageFailures :
                 TryFail(f, entered)
            \/ \E f \in PageFailures :
                 TryFail(f, [entered EXCEPT !.landmark_waits = 1])
    /\ UNCHANGED << inputs, session_dir, sm_fresh_login, needs_login, current_url,
                    course_label, assignment_label, polling >>


(***************************************************************************)
(* Resolution: course, then assignment                                     *)
(***************************************************************************)
\* a comparison that forgot lower()
Matches_case_sensitive(query, label) == In(query, label)

\* core.py:301 / 319 / 332   query.lower() in label.lower()
Matches(query, label) == In(Lower(query), Lower(label))

\* core.py:295-307: index of the card the loop stops at (0: it runs through);
\* cards without a short name are skipped
RECURSIVE CourseLoop(_, _, _)
CourseLoop(course, courses, i) ==
    IF i > Len(courses) THEN 0
    ELSE IF courses[i] = NoElem THEN CourseLoop(course, courses, i + 1)
    ELSE IF Matches(course, Strip(courses[i])) THEN i
    ELSE CourseLoop(course, courses, i + 1)

\* core.py:317-325 and 330-335: index of the first element whose text matches
RECURSIVE TextLoop(_, _, _)
TextLoop(assignment, texts, i) ==
    IF i > Len(texts) THEN 0
    ELSE IF Matches(assignment, Strip(texts[i])) THEN i
    ELSE TextLoop(assignment, texts, i + 1)

ButtonTexts(buttons) == [i \in 1..Len(buttons) |-> buttons[i].text]

\* page.wait_for_selector(sel): the first match must become visible
WaitVisible(buttons) == buttons # <<>> /\ buttons[1].visible

\* core.py:291-310
FindCourse ==
    /\ pc = "find_course"
    /\ LET i == CourseLoop(args.course, portal.courses, 1)
           label == IF i = 0 THEN Empty ELSE Strip(portal.courses[i])
       IN
       \/ \* query_selector_all or a read of a card raises
          \E f \in PageFailures : TryFail(f, ev) /\ UNCHANGED course_label
       \/ /\ PageUsable /\ i = 0
          /\ course_label' = Empty
          /\ TryRaise(CourseNotFound, [ev EXCEPT !.course_scans = @ + 1])
       \/ /\ PageUsable /\ i > 0
          /\ course_label' = label
          /\ \/ \* page.goto raises
                \E f \in PageFailures : TryFail(f, ev)
             \/ \* the course page is shown; the wait for an assignment link raises
                \E f \in PageFailures :
                  TryFail(f, [ev EXCEPT !.course_href = i])
             \/ /\ portal.links = <<>>
                /\ TryRaise(TimeoutError, [ev EXCEPT !.course_href = i])
             \/ /\ portal.links # <<>>
                /\ IF Truthy(label)
                   THEN /\ ev' = [ev EXCEPT !.course_href = i, !.course_scans = @ + 1]
                        /\ pc' = "find_assignment"
                        /\ UNCHANGED << session, raised >>
                   ELSE TryRaise(CourseNotFound,
                                 [ev EXCEPT !.course_href = i, !.course_scans = @ + 1])
    /\ UNCHANGED << inputs, session_dir, sm_fresh_login, needs_login, current_url,
                    assignment_label, polling >>

\* core.py:312-338
FindAssignment ==
    /\ pc = "find_assignment"
    /\ LET j == TextLoop(args.assignment, portal.links, 1)
           link_label == IF j = 0 THEN Empty ELSE Strip(portal.links[j])
           buttons == IF j = 0 THEN portal.course_buttons ELSE portal.assignment_buttons
           k == TextLoop(args.assignment, ButtonTexts(buttons), 1)
           button_label == IF k = 0 THEN Empty ELSE Strip(buttons[k].text)
           fallback == ~Truthy(link_label)
           label == IF fallback THEN button_label ELSE link_label
           done == [ev EXCEPT !.link_scans = @ + 1, !.link_href = j,
                              !.button_scans = @ + (IF fallback THEN 1 ELSE 0),
                              !.button_idx = IF fallback THEN k ELSE 0,
                              !.scanned = IF ~fallback THEN "link"
                                          ELSE IF k > 0 THEN "button" ELSE "none"]
       IN
       \/ \* a query or a read raises before anything was navigated to
          \E f \in PageFailures : TryFail(f, ev) /\ UNCHANGED assignment_label
       \/ /\ PageUsable /\ j > 0
          /\ assignment_label' = link_label
          /\ \/ \* the assignment page is shown; the wait for its button raises
                \E f \in PageFailures : TryFail(f, [ev EXCEPT !.link_href = j])
             \/ /\ ~WaitVisible(portal.assignment_buttons)
                /\ TryRaise(TimeoutError, [ev EXCEPT !.link_href = j])
       \/ /\ PageUsable
          /\ j > 0 => WaitVisible(portal.assignment_buttons)
          /\ assignment_label' = label
          /\ IF Truthy(label)
             THEN /\ ev' = done
                  /\ pc' = "start_submission"
                  /\ UNCHANGED << session, raised >>
             ELSE TryRaise(AssignmentNotFound, done)
    /\ UNCHANGED << inputs, session_dir, sm_fresh_login, needs_login, current_url,
                    course_label, polling >>

(***************************************************************************)
(* Submission                                                              *)
(***************************************************************************)
\* the button.js-submitAssignment elements of the page the run is on
CurrentButtons ==
    IF ev.link_href > 0 THEN portal.assignment_buttons ELSE portal.course_buttons

\* Playwright :has-text("needle"): case-insensitive substring of the text
HasText(text, needle) == In(Lower(needle), Lower(text))

\* the elements a locator button.js-submitAssignment:has-text(needle) resolves to
Resolved(buttons, needle) == { i \in 1..Len(buttons) : HasText(buttons[i].text, needle) }

\* locator.is_visible(): strict, so more than one element is an error
IsVisible(buttons, needle) ==
    LET els == Resolved(buttons, needle) IN
    IF Cardinality(els) > 1 THEN "strict"
    ELSE IF els = {} THEN "False"
    ELSE IF buttons[CHOOSE i \in els : TRUE].visible THEN "True" ELSE "False"

\* a branch that tries the submit control first
ChooseControl_submit_first(resubmit_visible, submit_visible) ==
    IF submit_visible = "True" THEN "submit"
    ELSE IF resubmit_visible = "True" THEN "resubmit"
    ELSE "none"

\* core.py:344-349: which control the branch picks
ChooseControl(resubmit_visible, submit_visible) ==
    IF resubmit_visible = "True" THEN "resubmit"
    ELSE IF submit_visible = "True" THEN "submit"
    ELSE "none"

\* core.py:340-349
StartSubmission ==
    /\ pc = "start_submission"
    /\ LET buttons == CurrentButtons
           rv == IsVisible(buttons, Resubmit)
           sv == IsVisible(buttons, assignment_label)
           control == ChooseControl(rv, sv)
           needle == IF control = "resubmit" THEN Resubmit ELSE assignment_label
       IN
       \/ \E f \in PageFailures : TryFail(f, ev)
       \/ /\ PageUsable /\ rv = "strict"
          /\ TryRaise(StrictModeError(Cardinality(Resolved(buttons, Resubmit))), ev)
       \/ /\ PageUsable /\ rv = "False" /\ sv = "strict"
          /\ TryRaise(StrictModeError(Cardinality(Resolved(buttons, assignment_label))), ev)
       \/ /\ PageUsable /\ rv # "strict" /\ (rv = "True" \/ sv # "strict")
          /\ IF control = "none"
             THEN TryRaise(NoSubmitControl, ev)
             ELSE /\ ev' = [ev EXCEPT !.control = control,
                                      !.control_idx = CHOOSE i \in Resolved(buttons, needle) : TRUE]
                  /\ pc' = "select_upload"
                  /\ UNCHANGED << session, raised >>
    /\ UNCHANGED << inputs, session_dir, sm_fresh_login, locals, polling >>

\* core.py:351-352
SelectUpload ==
    /\ pc = "select_upload"
    /\ \/ /\ PageUsable
          /\ pc' = "wait_file_input"
          /\ UNCHANGED << session, raised, ev >>
       \/ \E f \in PageFailures : TryFail(f, ev)
    /\ UNCHANGED << inputs, session_dir, sm_fresh_login, locals, polling >>

\* file_input.wait_for(state="attached") on a strict locator
FileInputWait(n) ==
    IF n = 0 THEN TimeoutError
    ELSE IF n = 1 THEN NoError
    ELSE StrictModeError(n)

\* core.py:354-362
WaitFileInput ==
    /\ pc = "wait_file_input"
    /\ \/ /\ PageUsable
          /\ LET e == FileInputWait(portal.file_inputs) IN
             IF e = NoError
             THEN /\ pc' = "attach"
                  /\ UNCHANGED << session, raised, ev >>
             ELSE /\ raised' = OuterHandler(FileInputHandler(e))
                  /\ ev' = [ev EXCEPT !.last_error = e, !.failed_at = pc]
                  /\ pc' = "finally"
                  /\ UNCHANGED session
       \/ \E f \in PageFailures :
            /\ Closure(f)
            /\ raised' = OuterHandler(FileInputHandler(f.msg))
            /\ ev' = [Noted(ev, f) EXCEPT !.last_error = f.msg, !.failed_at = pc]
            /\ pc' = "finally"
    /\ UNCHANGED << inputs, session_dir, sm_fresh_login, locals, polling >>


\* core.py:364-366  attach the file, settle for one second
AttachFile ==
    /\ pc = "attach"
    /\ \/ /\ PageUsable
          /\ ev' = [ev EXCEPT !.attaches = @ + 1]
          /\ pc' = "click_upload"
          /\ UNCHANGED << session, raised >>
       \/ \* set_input_files raises
          \E f \in PageFailures : TryFail(f, ev)
       \/ \* the settle wait raises
          \E f \in PageFailures : TryFail(f, [ev EXCEPT !.attaches = @ + 1])
    /\ UNCHANGED << inputs, session_dir, sm_fresh_login, locals, polling >>

\* a run that never waits for the operator
AfterPoll_no_wait == "finally"

\* where the run goes once submission (and polling) is over: core.py:380
AfterPoll == IF self_headless THEN "finally" ELSE "await_enter"

\* a run that polls for the grade whatever the caller asked
PollRequested_always(notify_when_graded) == TRUE

\* core.py:377  if notify_when_graded
PollRequested(notify_when_graded) == notify_when_graded

\* core.py:368-378  wait (5 s) for the upload button, click it, settle (3 s)
ClickUpload ==
    /\ pc = "click_upload"
    /\ \/ /\ PageUsable
          /\ ev' = [ev EXCEPT !.upload_clicks = @ + 1, !.submitted = TRUE]
          /\ IF PollRequested(args.notify_when_graded)
             THEN pc' = "poll" /\ poll' = "polling"
             ELSE pc' = AfterPoll /\ poll' = poll
          /\ UNCHANGED << session, raised, attempt, grade_text >>
       \/ \* upload_button.wait_for or the click raises
          \E f \in PageFailures : TryFail(f, ev) /\ UNCHANGED polling
       \/ \* the settle wait after the click raises
          \E f \in PageFailures :
            TryFail(f, [ev EXCEPT !.upload_clicks = @ + 1]) /\ UNCHANGED polling
    /\ UNCHANGED << inputs, session_dir, sm_fresh_login, locals >>

(***************************************************************************)
(* GradescopeSubmitter._wait_for_grade                                     *)
(***************************************************************************)
\* inner texts the grade element can show (NoElem: the element is absent)
GradeElements ==
    { NoElem, Empty, Blank, <<"-">>, <<" ", "-", "/", "5">>, <<"8", "7">>, <<"8", "-">> }

\* a check that forgot the pending marker
GradeIsFinal_any_text(grade_el) == grade_el # NoElem /\ Truthy(Strip(grade_el))

\* core.py:439-441
GradeIsFinal(grade_el) ==
    /\ grade_el # NoElem
    /\ LET text == Strip(grade_el) IN Truthy(text) /\ ~StartsWith(text, <<"-">>)

\* a loop that runs one attempt too many
LoopContinues_one_more(i) == i <= max_attempts

\* core.py:431  for i in range(max_attempts)
LoopContinues(i) == i < max_attempts

\* a delay twice as long
SleepSeconds_doubled == poll_sleep + poll_sleep

\* core.py:447
SleepSeconds == poll_sleep

\* a handler that lets the exception through
PollHandler_reraise(e) == e

\* core.py:450-459  except Exception: each of the three branches only logs,
\* so nothing leaves _wait_for_grade
PollHandler(e) ==
    IF In(TargetClosedError, e) THEN NoError
    ELSE IF In(<<"Protocol", "error">>, e) /\ In(<<"Target", "closed">>, e) THEN NoError
    ELSE NoError

\* core.py:432-445  one reload and one look at the grade element
PollReload ==
    /\ pc = "poll"
    /\ \/ /\ PageUsable
          /\ \E grade_el \in GradeElements :
               /\ grade_text' = IF grade_el = NoElem THEN NoElem ELSE Strip(grade_el)
               /\ IF GradeIsFinal(grade_el)
                  THEN poll' = "found" /\ pc' = AfterPoll
                  ELSE poll' = "polling" /\ pc' = "poll_sleep"
          /\ ev' = [ev EXCEPT !.reloads = @ + 1]
          /\ UNCHANGED << session, raised >>
       \/ \* core.py:450-459  any exception ends the monitoring, not the run
          \E f \in PageFailures :
            LET e == PollHandler(f.msg) IN
            /\ Closure(f)
            /\ poll' = "stopped"
            /\ IF e = NoError
               THEN /\ ev' = [Noted(ev, f) EXCEPT !.reloads = @ + 1]
                    /\ pc' = AfterPoll
                    /\ raised' = raised
               ELSE \* the exception reaches the except clause of the caller
                    /\ ev' = [Noted(ev, f) EXCEPT !.reloads = @ + 1, !.last_error = e,
                                                  !.failed_at = pc]
                    /\ pc' = "finally"
                    /\ raised' = OuterHandler(e)
            /\ UNCHANGED grade_text
    /\ UNCHANGED << inputs, session_dir, sm_fresh_login, locals, attempt >>

\* core.py:447-449  sleep, next i; the for-else reports the timeout
PollSleep ==
    /\ pc = "poll_sleep"
    /\ attempt' = attempt + 1
    /\ IF LoopContinues(attempt + 1)
       THEN /\ pc' = "poll" /\ poll' = poll
            /\ ev' = [ev EXCEPT !.sleeps = @ + 1, !.slept = @ + SleepSeconds]
       ELSE /\ pc' = AfterPoll /\ poll' = "timed_out"
            /\ ev' = [ev EXCEPT !.sleeps = @ + 1, !.slept = @ + SleepSeconds,
                                !.reported = max_attempts * 5]
    /\ UNCHANGED << inputs, session_dir, sm_fresh_login, session, locals,
                    grade_text, raised >>

\* core.py:380-382  non-headless: wait for the operator's Enter
AwaitEnter ==
    /\ pc = "await_enter"
    /\ \/ /\ ev' = [ev EXCEPT !.enter_waits = @ + 1]
          /\ raised' = raised
       \/ /\ ev' = [ev EXCEPT !.enter_waits = @ + 1, !.last_error = EOFError,
                               !.failed_at = pc]
          /\ raised' = OuterHandler(EOFError)
    /\ pc' = "finally"
    /\ UNCHANGED << inputs, session_dir, sm_fresh_login, session, locals, polling >>

(***************************************************************************)
(* Release                                                                 *)
(***************************************************************************)
\* core.py:402-411: whether the finally clause calls close()
CallsClose ==
    IF browser # "None" THEN browser = "connected" ELSE context_pages # 0

\* playwright: what playwright.stop() raises when the driver is gone
DriverError == <<"Connection", "closed", "while", "reading", "from", "the", "driver">>

\* an except clause that lets the error of close() through
CloseHandler_reraise(e) == e

\* core.py:412-415  except Exception around the close: both arms are `pass`
CloseHandler(e) == NoError

\* core.py:419-421  except Exception around playwright.stop(): pass
StopHandler(e) == NoError

\* python: an exception that leaves a finally clause replaces the exception
\* or return value that was on its way out
Replaces(e, pending) == IF e # NoError THEN e ELSE pending

\* core.py:400-421  the finally clause; close_ok / stop_ok: the call succeeds.
\* The stop sits in the finally of the inner try, so it is attempted whatever
\* the close did.
Release ==
    /\ pc = "finally"
    /\ \E close_ok \in BOOLEAN, stop_ok \in BOOLEAN :
         LET close_error == IF close_ok THEN NoError ELSE CloseHandler(TargetClosedError)
             stop_error == IF stop_ok THEN NoError ELSE StopHandler(DriverError)
         IN
         /\ ~CallsClose => close_ok
         /\ IF CallsClose /\ close_ok
            THEN /\ browser' = IF browser = "None" THEN "None" ELSE "closed"
                 /\ context' = "closed"
                 /\ context_pages' = 0
            ELSE UNCHANGED << browser, context, context_pages >>
         /\ playwright' = IF stop_ok THEN "stopped" ELSE playwright
         /\ raised' = Replaces(stop_error, Replaces(close_error, raised))
         /\ ev' = [ev EXCEPT !.closes = @ + (IF CallsClose THEN 1 ELSE 0),
                             !.stops = @ + 1,
                             !.close_failed = ~close_ok, !.stop_failed = ~stop_ok]
    /\ pc' = "returned"
    /\ UNCHANGED << inputs, session_dir, sm_fresh_login, durable, locals, polling >>

(***************************************************************************)
(* cli.py debug_session                                                    *)
(***************************************************************************)
\* cli.py:406  is_logged_in(context) without a page
DebugProbe ==
    /\ pc = "debug_probe"
    /\ \E fail_at \in ProbeSteps \cup {"none"}, f \in ContextFailures,
          ok \in BOOLEAN, obs \in ProbeObservations :
         LET page_supplied == PageSupplied(args.cmd)
             r == is_logged_in(page_supplied, fail_at, ok, obs)
             probed == [ProbePages(ev, page_supplied, fail_at)
                          EXCEPT !.probes = @ + 1, !.probe = ProbeResult(r),
                                 !.probe_fail = fail_at,
                                 !.probe_final = IF fail_at = "none" THEN obs.final
                                                 ELSE NoUrl]
         IN
         /\ fail_at = "none" => context = "open"
         /\ IF fail_at = "none"
            THEN UNCHANGED session /\ ev' = probed
            ELSE Closure(f) /\ ev' = Noted(probed, f)
         /\ raised' = r.raises
    /\ pc' = "debug_finally"
    /\ UNCHANGED << inputs, session_dir, sm_fresh_login, locals, polling >>

\* cli.py:444-449  finally: close unconditionally, stop the driver
DebugRelease ==
    /\ pc = "debug_finally"
    /\ browser' = IF browser = "None" THEN "None" ELSE "closed"
    /\ context' = "closed"
    /\ context_pages' = 0
    /\ playwright' = "stopped"
    /\ ev' = [ev EXCEPT !.closes = @ + 1, !.stops = @ + 1]
    /\ pc' = "returned"
    /\ UNCHANGED << inputs, session_dir, sm_fresh_login, durable, locals, polling, raised >>

(***************************************************************************)
(* cli.py cleanup                                                          *)
(***************************************************************************)
\* python: the exception shutil.rmtree raises on a missing directory
FileNotFoundError == <<"No", "such", "file", "or", "directory">>

\* a cleanup that removes the directory without looking
cleanup_session_unguarded(exists) ==
    [dir |-> FALSE, raises |-> IF exists THEN NoError ELSE FileNotFoundError]

\* SessionManager.cleanup_session (core.py:125-129): the directory afterwards
\* and the exception raised
cleanup_session(exists) ==
    IF exists THEN [dir |-> FALSE, raises |-> NoError]
    ELSE [dir |-> exists, raises |-> NoError]

\* cli.py:454-459  SessionManager().cleanup_session(); the command can be run
\* again afterwards
cleanup ==
    /\ args.cmd = "cleanup"
    /\ pc \in {"start", "returned"}
    /\ ev.cleanups < MaxCleanups
    /\ LET r == cleanup_session(session_dir) IN
       /\ sm_fresh_login' = FALSE
       /\ session_dir' = r.dir
       /\ raised' = r.raises
       /\ ev' = [ev EXCEPT !.cleanups = @ + 1,
                           !.had_dir = IF ev.cleanups = 0 THEN session_dir ELSE @]
    /\ pc' = "returned"
    /\ UNCHANGED << inputs, session, locals, polling >>

(***************************************************************************)
(* Specification                                                           *)
(***************************************************************************)
\* the run's own durable context is live
DurableLive == durable /\ context = "open"

\* the second run constructs its SessionManager (core.py:29-40), with or
\* without fresh login
concurrent_init ==
    /\ other.pc = "start"
    /\ \E fresh_login \in BOOLEAN :
         /\ session_dir' = rmtree_if_fresh(fresh_login, session_dir)
         /\ other' = [other EXCEPT !.pc = "get_context", !.fresh_login = fresh_login]
    /\ UNCHANGED << pc, args, portal, sm_fresh_login, session, locals, polling,
                    raised, ev >>

\* the second run's get_browser_context (core.py:42-69)
concurrent_get_browser_context ==
    /\ other.pc = "get_context"
    /\ session_dir' = IF other.fresh_login THEN session_dir ELSE mkdir(session_dir)
    /\ \/ /\ other.fresh_login \/ ~ProfileInUse(DurableLive)
          /\ other' = [other EXCEPT !.pc = "running",
                         !.context = IF other.fresh_login THEN "ephemeral" ELSE "durable"]
       \/ other' = [other EXCEPT !.pc = "returned"]
    /\ UNCHANGED << pc, args, portal, sm_fresh_login, session, locals, polling,
                    raised, ev >>

\* the second run's finally clause (core.py:400-421)
concurrent_release ==
    /\ other.pc = "running"
    /\ other' = [other EXCEPT !.pc = "returned", !.context = "none"]
    /\ UNCHANGED << pc, args, portal, session_dir, sm_fresh_login, session, locals,
                    polling, raised, ev >>

\* the cleanup command run from another shell (cli.py:454-459) while the
\* run is in progress
concurrent_cleanup ==
    /\ other.pc = "start"
    /\ session_dir' = cleanup_session(session_dir).dir
    /\ other' = [other EXCEPT !.pc = "returned"]
    /\ UNCHANGED << pc, args, portal, sm_fresh_login, session, locals, polling,
                    raised, ev >>

Next ==
    \/ GradescopeSubmitter_init
    \/ debug_session_init
    \/ get_browser_context
    \/ NewPage
    \/ CheckSession
    \/ ManualLoginGoto
    \/ ManualLoginWait
    \/ LoginGoto
    \/ FillCredentials
    \/ RememberMe
    \/ SubmitLogin
    \/ AwaitLandmark
    \/ ExistingSession
    \/ FindCourse
    \/ FindAssignment
    \/ StartSubmission
    \/ SelectUpload
    \/ WaitFileInput
    \/ AttachFile
    \/ ClickUpload
    \/ PollReload
    \/ PollSleep
    \/ AwaitEnter
    \/ Release
    \/ DebugProbe
    \/ DebugRelease
    \/ cleanup
    \/ concurrent_init
    \/ concurrent_get_browser_context
    \/ concurrent_release
    \/ concurrent_cleanup

Spec == Init /\ [][Next]_vars

\* the steps that await the browser or a timer: each such call returns or
\* raises within its timeout, so the event loop always resumes the coroutine;
\* only the wait for the operator's Enter (AwaitEnter) may last forever, and
\* nobody has to run the cleanup command or a second run
Awaited ==
    \/ get_browser_context \/ NewPage \/ CheckSession
    \/ ManualLoginGoto \/ ManualLoginWait \/ LoginGoto \/ FillCredentials
    \/ RememberMe \/ SubmitLogin \/ AwaitLandmark \/ ExistingSession
    \/ FindCourse \/ FindAssignment \/ StartSubmission \/ SelectUpload
    \/ WaitFileInput \/ AttachFile \/ ClickUpload \/ PollReload \/ PollSleep
    \/ Release \/ DebugProbe \/ DebugRelease

FairSpec == Spec /\ WF_vars(Awaited)


(***************************************************************************)
(* Properties                                                              *)
(***************************************************************************)
\* the run of submit_to_gradescope is over and had entered its try block
SubmitReturned == pc = "returned" /\ args.cmd = "submit" /\ ev.in_try

\* C1: when submit_to_gradescope hands control back after any exit path of
\* its try block, the driver was stopped exactly once and the session
\* (browser or durable context) was closed exactly once, by the run or,
\* on an interruption, by whoever closed the browser.
C1_ReleasedExactlyOnce ==
    SubmitReturned => ev.stops = 1 /\ ev.closes + ev.ext_closes = 1

\* C2: is_logged_in never raises: whenever one of its awaited calls fails,
\* with or without a caller-supplied page, it returns (False, None).
C2_ProbeNeverRaises ==
    /\ ev.probe # "raised"
    /\ ev.probe_fail # "none" => ev.probe = "Unauthenticated"


LoginPcs == {"try", "fill", "remember", "click_login", "await_landmark", "manual_wait"}
Ended == pc \in {"finally", "returned"}

\* the run got as far as the course search
CourseSearchStarted ==
    /\ args.cmd = "submit"
    /\ \/ pc \in {"find_course", "find_assignment", "start_submission", "select_upload",
                  "wait_file_input", "attach", "click_upload", "poll", "poll_sleep",
                  "await_enter"}
       \/ Ended /\ ev.in_try /\ ev.failed_at \notin LoginPcs

AutomatedLoginNeeded == args.cmd = "submit" /\ ~args.manual_login /\ needs_login

\* C3 (as claimed): in automated mode with login needed, the course search
\* starts only after the credentials were submitted and the landmark was seen.
C3_CourseSearchOnlyAfterLogin ==
    (AutomatedLoginNeeded /\ CourseSearchStarted) => ev.login_clicks = 1 /\ ev.landmark

\* C3 (amended): in automated mode with login needed the run goes to the
\* identity provider's entry point once; if the page lands on the identity
\* provider, the course search starts only after the form was filled and
\* submitted and the landmark was seen; if it lands elsewhere the course
\* search starts with nothing submitted and no landmark awaited; a failing
\* login step ends the run with that step's error (the interrupted error for
\* a closed browser) and without any course search.
C3_LoginBeforeCourseSearch ==
    AutomatedLoginNeeded =>
      /\ CourseSearchStarted =>
           /\ ev.idp_gotos = 1
           /\ IF ev.landed = "idp"
              THEN ev.filled /\ ev.login_clicks = 1 /\ ev.landmark
              ELSE ev.landed = "portal" /\ ~ev.filled /\ ev.login_clicks = 0 /\ ~ev.landmark
      /\ (Ended /\ ev.failed_at \in LoginPcs) =>
           /\ raised \in {ev.last_error, SessionInterrupted, ConnectionLost}
           /\ raised # NoError
           /\ ev.course_scans = 0 /\ ev.course_href = 0

C3_Witness ==
    /\ AutomatedLoginNeeded /\ pc = "find_course"
    /\ ev.landed = "idp" /\ ev.login_clicks = 1 /\ ev.landmark

\* C4: whenever a stage inside the try block fails because the browser
\* session was closed or its connection lost, the run fails with the
\* interrupted error and no other.
C4_ClosedMeansInterrupted ==
    ( /\ args.cmd = "submit" /\ ev.in_try /\ Ended
      /\ ev.last_error \in {TargetClosedError, ProtocolError} )
    => raised \in {SessionInterrupted, ConnectionLost}

Min(S) == CHOOSE x \in S : \A y \in S : x <= y

\* label contains query as a contiguous substring, letter case ignored
ContainsCI(label, query) ==
    \E k \in 0..(Len(label) - Len(query)) :
      \A m \in 1..Len(query) : LowerChar(label[k + m]) = LowerChar(query[m])

CourseCandidates ==
    { i \in 1..Len(portal.courses) :
        portal.courses[i] # NoElem /\ ContainsCI(Strip(portal.courses[i]), args.course) }

\* C5: the course search picks the first card in page order whose display
\* label contains the query, letter case ignored, and navigates to that
\* card; with no such card the run fails with CourseNotFound; "cab202" over
\* CAB201, CAB202, CAB203 resolves to CAB202.
C5_FirstCourseMatch ==
    /\ (ev.course_href # 0 \/ ev.course_scans = 1) =>
         LET candidates == CourseCandidates IN
         /\ ev.course_href # 0 =>
              /\ candidates # {}
              /\ ev.course_href = Min(candidates)
              /\ course_label = Strip(portal.courses[ev.course_href])
         /\ ev.course_scans = 1 =>
              IF candidates = {}
              THEN ev.course_href = 0 /\ raised = CourseNotFound /\ Ended
              ELSE ev.course_href = Min(candidates)
    /\ ( /\ args.course = cab202 /\ portal.courses = <<CAB201, CAB202, CAB203>>
         /\ ev.course_scans = 1 ) => course_label = CAB202 /\ ev.course_href = 2

C5_Witness ==
    /\ pc = "find_assignment" /\ args.course = cab202
    /\ portal.courses = <<CAB201, CAB202, CAB203>>
    /\ course_label = CAB202 /\ ev.course_href = 2

LinkCandidates ==
    { j \in 1..Len(portal.links) : ContainsCI(Strip(portal.links[j]), args.assignment) }

ButtonCandidates(buttons) ==
    { k \in 1..Len(buttons) : ContainsCI(Strip(buttons[k].text), args.assignment) }

\* C6: the assignment search takes the first matching link; the button scan
\* is consulted only when no link matches and then takes the first matching
\* button; with neither the run fails with AssignmentNotFound.
C6_LinksBeforeButtons ==
    ev.link_scans = 1 =>
      IF LinkCandidates # {}
      THEN /\ ev.link_href = Min(LinkCandidates)
           /\ ev.button_scans = 0
           /\ assignment_label = Strip(portal.links[Min(LinkCandidates)])
      ELSE /\ ev.link_href = 0
           /\ ev.button_scans = 1
           /\ IF ButtonCandidates(portal.course_buttons) # {}
              THEN assignment_label =
                     Strip(portal.course_buttons[Min(ButtonCandidates(portal.course_buttons))].text)
              ELSE raised = AssignmentNotFound /\ Ended

\* the controls a has-text locator for needle resolves to
Controls(needle) ==
    { i \in 1..Len(CurrentButtons) : ContainsCI(CurrentButtons[i].text, needle) }

\* the locator names one control, and it is visible
Shown(needle) ==
    \E i \in Controls(needle) : Controls(needle) = {i} /\ CurrentButtons[i].visible

Ambiguous(needle) == Cardinality(Controls(needle)) > 1

C7_WitnessNone ==
    /\ Ended /\ raised = NoSubmitControl /\ Len(CurrentButtons) > 0

FileInputFailed == ev.failed_at = "wait_file_input"

\* C8 (as claimed): a file-input wait that fails because the selector
\* resolved to several elements, whatever their number, fails the run with
\* NoPriorSubmissionExists.
C8_AnyCountIsNoPriorSubmission ==
    (FileInputFailed /\ \E n \in 2..MaxResolved : ev.last_error = StrictModeError(n))
    => raised = NoPriorSubmissionExists

\* C8 (amended): a file-input wait that fails with a strict-mode violation
\* reporting exactly 3 elements fails the run with NoPriorSubmissionExists;
\* a violation reporting any other number, and a timeout, reach the caller
\* as themselves; a closed-browser error becomes the interrupted error.
C8_ThreeElementsIsNoPriorSubmission ==
    FileInputFailed =>
      /\ ev.last_error = StrictModeError(3) => raised = NoPriorSubmissionExists
      /\ \A n \in (2..MaxResolved) \ {3} :
           ev.last_error = StrictModeError(n) => raised = StrictModeError(n)
      /\ ev.last_error = TimeoutError => raised = TimeoutError
      /\ ev.last_error = TargetClosedError => raised = SessionInterrupted
      /\ ev.last_error = ProtocolError => raised = ConnectionLost
      /\ ev.attaches = 0 /\ ev.upload_clicks = 0

C8_Witness ==
    /\ FileInputFailed /\ Ended /\ portal.file_inputs = 3
    /\ ev.last_error = StrictModeError(3) /\ raised = NoPriorSubmissionExists


PollPcs == {"poll", "poll_sleep"}

\* the counting part of C9: at most 48 reloads, one 5-second sleep after each
\* reload that did not end the loop, at most 240 seconds slept, and TimedOut
\* without an exception exactly when all 48 attempts went by
C9_PollSafe ==
    /\ ev.reloads <= 48
    /\ ev.slept = 5 * ev.sleeps
    /\ ev.slept <= 240
    /\ ev.sleeps <= ev.reloads /\ ev.reloads <= ev.sleeps + 1
    /\ pc = "poll" => ev.reloads = ev.sleeps /\ ev.sleeps = attempt
    /\ pc = "poll_sleep" => ev.reloads = ev.sleeps + 1
    /\ poll = "timed_out" => ev.reloads = 48 /\ ev.slept = 240
    /\ (poll # "none" /\ pc \notin PollPcs /\ ev.enter_waits = 0) =>
         /\ raised = NoError
         /\ poll \in {"found", "timed_out", "stopped"}
         /\ (poll = "timed_out") = (ev.sleeps = 48)

\* C9: the grade poll reloads at most 48 times, sleeps 5 seconds between
\* consecutive reloads, never sleeps more than 240 seconds in total, ends
\* with TimedOut and no exception when all attempts went by without a
\* qualifying grade, and always terminates.
C9_PollBounded ==
    /\ []C9_PollSafe
    /\ (pc \in PollPcs) ~> (pc \notin PollPcs)

C9_Witness ==
    /\ poll = "timed_out" /\ pc = "returned" /\ raised = NoError
    /\ ev.reloads = 48 /\ ev.slept = 240

\* the text shown is a final grade: present, not empty, no leading "-"
FinalGrade(text) == text # NoElem /\ Len(text) > 0 /\ text[1] # "-"

\* C10: an iteration ends the loop iff the grade element exists and its
\* trimmed text is not empty and does not begin with "-"; once the grade is
\* found there is no further reload or sleep; an absent element, an empty
\* text or a pending marker never ends the loop early.
C10_PollStep ==
    [][ /\ (pc = "poll" /\ poll' = "found") =>
             FinalGrade(grade_text') /\ pc' \notin PollPcs
        /\ (pc = "poll" /\ pc' = "poll_sleep") => ~FinalGrade(grade_text')
        /\ (pc = "poll" /\ poll' # "stopped") =>
             (FinalGrade(grade_text') <=> pc' \notin PollPcs)
        /\ (pc = "poll" /\ pc' \notin PollPcs /\ ~FinalGrade(grade_text')) =>
             poll' = "stopped"
        /\ (pc = "poll_sleep" /\ pc' \notin PollPcs) => attempt' = 48
        /\ poll = "found" =>
             /\ ev'.reloads = ev.reloads /\ ev'.sleeps = ev.sleeps
             /\ poll' = "found" /\ grade_text' = grade_text ]_vars

C10_Witness ==
    /\ poll = "found" /\ pc = "returned" /\ grade_text = <<"8", "7">>
    /\ attempt = 2 /\ ev.reloads = 3 /\ ev.sleeps = 2

\* C11: a grade first seen on attempt k (1..48) is found after exactly k
\* reloads and k-1 delays of 5 seconds, so on attempt 48 after 235 seconds
\* of delay; when no attempt qualifies there are exactly 48 reloads and the
\* timeout reports 240 seconds.
C11_ExactCounts ==
    /\ poll = "found" =>
         /\ attempt + 1 \in 1..48
         /\ ev.reloads = attempt + 1
         /\ ev.sleeps = attempt
         /\ ev.slept = 5 * attempt
         /\ FinalGrade(grade_text)
    /\ (poll = "found" /\ ev.reloads = 48) => ev.slept = 235
    /\ (pc = "poll_sleep" /\ poll = "polling") =>
         ~FinalGrade(grade_text) /\ ev.reloads = attempt + 1
    /\ poll = "timed_out" =>
         ev.reloads = 48 /\ ev.reported = 240 /\ ~FinalGrade(grade_text)
    /\ ev.reported # 0 => poll = "timed_out"

C11_Witness ==
    /\ poll = "found" /\ pc = "returned" /\ raised = NoError
    /\ ev.reloads = 48 /\ ev.sleeps = 47 /\ ev.slept = 235

\* the Grade-Poll Stage is over or under way
PollEntered == args.cmd = "submit" /\ poll # "none"

\* C12: once the upload was confirmed, nothing in the grade poll fails the
\* run: whether the poll found a grade, ran out of attempts or was stopped by
\* an exception (the session dying included), no exception is pending when
\* the poll ends, and the run returns the course and assignment labels.
C12_PollNeverFails ==
    PollEntered =>
      /\ ev.submitted /\ ev.upload_clicks = 1
      /\ ev.enter_waits = 0 => (raised = NoError /\ ev.failed_at = "none")
      /\ ev.failed_at \in {"none", "await_enter"}
      /\ (pc = "returned" /\ ev.failed_at = "none") =>
           /\ raised = NoError
           /\ Truthy(course_label) /\ Truthy(assignment_label)

C12_Witness ==
    /\ PollEntered /\ poll = "stopped" /\ pc = "returned"
    /\ context = "closed" /\ ev.ext_closes = 1 /\ raised = NoError

\* the run was made with a fresh session: asked for, or implied by manual
\* login (core.py:140)
FreshRun == args.fresh_login \/ args.manual_login

\* the session check of a submit run is behind it
PastSessionCheck == args.cmd = "submit" /\ (pc = "try" \/ ev.in_try)

\* C13: the probe is performed iff the run is not a fresh-login run; a fresh
\* run needs login without probing; after a probe that answered
\* Authenticated the run needs no login and never goes to the identity
\* provider's entry point nor fills or submits credentials; after a probe
\* that answered Unauthenticated the run needs login.
C13_ProbeIffNotFresh ==
    /\ (args.cmd = "submit" /\ pc \in {"start", "get_context", "new_page"}) => ev.probes = 0
    /\ PastSessionCheck =>
         /\ ev.probes = (IF FreshRun THEN 0 ELSE 1)
         /\ FreshRun => (needs_login /\ ev.probe = "none")
         /\ ev.probe = "Authenticated" =>
              /\ ~needs_login
              /\ ev.idp_gotos = 0 /\ ~ev.filled /\ ev.login_clicks = 0
         /\ ev.probe = "Unauthenticated" => needs_login
         /\ ~FreshRun => ev.probe \in {"Authenticated", "Unauthenticated"}

C13_Witness ==
    /\ PastSessionCheck /\ ~FreshRun /\ ev.probe = "Authenticated"
    /\ pc = "find_course" /\ ev.landmark

ManualRun == args.cmd = "submit" /\ args.manual_login

\* C14: a manual-login run opens the identity provider's entry point once,
\* never fills or submits credentials, and waits at most 300 seconds for the
\* portal landmark; the course search starts only after the landmark was
\* seen; a wait that times out ends the run with ManualLoginTimeout after
\* 300 seconds and without any course search.
C14_ManualLogin ==
    ManualRun =>
      /\ ~ev.filled /\ ev.login_clicks = 0
      /\ ev.manual_wait <= 300
      /\ (pc = "manual_wait" \/ CourseSearchStarted) => ev.idp_gotos = 1
      /\ pc = "manual_wait" => (~ev.landmark /\ ev.course_scans = 0)
      /\ CourseSearchStarted => ev.landmark
      /\ (ev.failed_at = "manual_wait" /\ ev.last_error = TimeoutError) =>
           /\ raised = ManualLoginTimeout /\ Ended
           /\ ev.manual_wait = 300
           /\ ~ev.landmark /\ ev.course_scans = 0 /\ ev.course_href = 0

C14_Witness ==
    /\ ManualRun /\ pc = "returned" /\ raised = ManualLoginTimeout
    /\ ev.last_error = TimeoutError /\ ev.manual_wait = 300 /\ ev.idp_gotos = 1

C14_WitnessLandmark ==
    /\ ManualRun /\ pc = "find_course" /\ ev.landmark /\ ev.idp_gotos = 1

\* the run's SessionManager exists
Constructed == pc # "start"

\* C15: in a fresh-login run the profile directory is gone before the context
\* is created and is not made again by the run, the context is not backed by
\* the profile directory, no probe is made, and the run needs login.
C15_FreshRun ==
    (args.cmd = "submit" /\ FreshRun /\ Constructed) =>
      /\ sm_fresh_login
      /\ ~session_dir
      /\ ~durable
      /\ context # "none" => browser # "None"
      /\ needs_login
      /\ ev.probes = 0 /\ ev.probe = "none"
      /\ ~(pc = "try" /\ ~args.manual_login /\ ~needs_login)

C15_Witness ==
    /\ args.cmd = "submit" /\ FreshRun /\ ev.had_dir /\ ~session_dir
    /\ pc = "fill" /\ context = "open" /\ browser = "connected" /\ ~durable

\* get_browser_context returned a context to its caller
ContextReturned == Constructed /\ pc # "get_context" /\ context # "none"

\* no second run is interleaved with this one
Alone == other.pc = "absent"

\* C16: in a non-fresh run get_browser_context makes the profile directory
\* when it is absent, never removes one that exists, and opens a durable
\* context on it; once it has returned the directory exists (as far as the
\* run's own steps go: no second run is interleaved).
C16_DurableRun ==
    (args.cmd \in {"submit", "debug_session"} /\ ~FreshRun /\ Alone) =>
      /\ ev.had_dir => session_dir
      /\ ContextReturned => (session_dir /\ durable /\ browser = "None")
      /\ pc = "get_context" => session_dir = ev.had_dir
      /\ (pc = "returned" /\ ev.failed_at = "launch") => session_dir

C16_Witness ==
    /\ args.cmd = "submit" /\ ~FreshRun /\ Alone /\ ~ev.had_dir /\ session_dir
    /\ pc = "check_session" /\ durable /\ context = "open"

\* C17: after cleanup_session has run the profile directory does not exist,
\* whether or not it existed before; running it again, or on an absent
\* directory, raises nothing and leaves the directory absent.
C17_CleanupIdempotent ==
    (args.cmd = "cleanup" /\ ev.cleanups >= 1) =>
      /\ ~session_dir
      /\ raised = NoError
      /\ pc = "returned"

C17_Witness ==
    /\ args.cmd = "cleanup" /\ ev.cleanups = 2 /\ ev.had_dir
    /\ ~session_dir /\ raised = NoError

C17_WitnessAbsent ==
    /\ args.cmd = "cleanup" /\ ev.cleanups = 1 /\ ~ev.had_dir
    /\ ~session_dir /\ raised = NoError

\* the address is on the portal's own domain and outside the
\* authentication-flow path
OnPortalOutsideAuth(url) == StartsWith(url, PortalOrigin) /\ ~StartsWith(url, PortalAuth)

\* a submit run's probe went through without a failing call
ProbeCompleted ==
    /\ args.cmd = "submit" /\ ev.probes = 1 /\ ev.probe_fail = "none"
    /\ pc = "try"

\* C18: the probe answers Authenticated iff the address the page is on after
\* the settle delay is on the portal's domain and outside the
\* authentication-flow path, and Unauthenticated in every other case, the
\* identity provider's domain included; a landing address it returns is on
\* the portal's domain and outside the authentication-flow path.
C18_ClassifiedByFinalAddress ==
    ProbeCompleted =>
      /\ (ev.probe = "Authenticated") <=> OnPortalOutsideAuth(ev.probe_final)
      /\ In(<<"qut.edu.au">>, ev.probe_final) => ev.probe = "Unauthenticated"
      /\ ev.probe = "Authenticated" => OnPortalOutsideAuth(current_url)

\* a step of the run after one of its stages failed does nothing again
NothingAfterFailure ==
    (args.cmd = "submit" /\ ev.failed_at # "none") =>
      /\ pc \in {"finally", "returned"}
      /\ ev'.idp_gotos = ev.idp_gotos /\ ev'.filled = ev.filled
      /\ ev'.login_clicks = ev.login_clicks
      /\ ev'.landmark_waits = ev.landmark_waits
      /\ ev'.attaches = ev.attaches /\ ev'.upload_clicks = ev.upload_clicks
      /\ ev'.control = ev.control /\ ev'.failed_at = ev.failed_at

OnceEach ==
    /\ ev.idp_gotos <= 1 /\ ev.login_clicks <= 1
    /\ ev.attaches <= 1 /\ ev.upload_clicks <= 1

\* C19 (as claimed): nothing is retried within a run: the login form is
\* submitted, the file attached and the upload confirmed at most once each,
\* no wait of the Authentication Stage is made again after it failed, and
\* after a failure of a stage the run does nothing more in it.
C19_NothingRetried ==
    /\ []OnceEach
    /\ [](ev.landmark_waits <= 1)
    /\ [][NothingAfterFailure]_vars

\* C19 (amended): the login form is submitted, the file attached and the
\* upload confirmed at most once each, and after a failure that leaves a
\* stage the run goes to release and does nothing more; the one exception
\* is a run that found itself logged in: when its first, 5-second wait for
\* the landmark fails, it reloads the page and waits once more, so the
\* landmark is awaited at most twice, and twice only in that branch.
C19_RetryOnlyLandmark ==
    /\ []OnceEach
    /\ [](ev.landmark_waits <= 2)
    /\ [](ev.landmark_waits = 2 =>
             ev.probe = "Authenticated" /\ ~needs_login /\ ev.login_clicks = 0)
    /\ [][NothingAfterFailure]_vars

C19_Witness ==
    /\ args.cmd = "submit" /\ ev.landmark_waits = 2 /\ ev.landmark
    /\ pc = "returned" /\ raised = NoError
    /\ ev.attaches = 1 /\ ev.upload_clicks = 1

\* the stage a position of the run belongs to: 0 acquiring the session,
\* 1 authentication, 2 course resolution, 3 assignment resolution,
\* 4 submission, 5 grade poll, 6 waiting for Enter, 7 release, 8 over
StageOf(p) ==
    CASE p \in {"start", "get_context", "new_page", "check_session"} -> 0
      [] p \in LoginPcs -> 1
      [] p = "find_course" -> 2
      [] p = "find_assignment" -> 3
      [] p \in {"start_submission", "select_upload", "wait_file_input", "attach",
                "click_upload"} -> 4
      [] p \in PollPcs -> 5
      [] p = "await_enter" -> 6
      [] p = "finally" -> 7
      [] OTHER -> 8

\* what every step of a submit run respects
StageStep ==
    args.cmd = "submit" =>
      /\ StageOf(pc') >= StageOf(pc)
      /\ StageOf(pc') \in 1..5 => StageOf(pc') <= StageOf(pc) + 1
      /\ (StageOf(pc') > StageOf(pc) /\ StageOf(pc') \in 1..5) =>
           (ev'.failed_at = "none" /\ raised' = NoError)
      /\ ev'.failed_at # "none" => pc' \in {"finally", "returned"}
      /\ pc' = "await_enter" => (StageOf(pc) \in {4, 5} /\ ev'.submitted)
      /\ (pc # "poll" /\ pc' = "poll") =>
           \/ pc = "click_upload" /\ args.notify_when_graded /\ ev'.upload_clicks = 1
           \/ pc = "poll_sleep"
      /\ (StageOf(pc) = 7 /\ pc' # pc) => StageOf(pc') = 8

\* what holds of every state of a submit run
StageState ==
    args.cmd = "submit" =>
      /\ StageOf(pc) \in 3..5 => (Truthy(course_label) /\ ev.course_scans = 1)
      /\ StageOf(pc) \in 4..5 => (Truthy(assignment_label) /\ ev.link_scans = 1)
      /\ StageOf(pc) <= 3 => (ev.attaches = 0 /\ ev.upload_clicks = 0 /\ ev.control = "none")
      /\ StageOf(pc) <= 4 => (ev.reloads = 0 /\ poll = "none")
      /\ raised \in {CourseNotFound, AssignmentNotFound} =>
           /\ ev.control = "none" /\ ev.attaches = 0 /\ ev.upload_clicks = 0
           /\ ev.reloads = 0 /\ Ended
      /\ raised = CourseNotFound => ev.link_scans = 0
      /\ ev.failed_at \in LoginPcs => (ev.course_scans = 0 /\ ev.attaches = 0)
      /\ poll # "none" => (args.notify_when_graded /\ ev.submitted /\ ev.upload_clicks = 1)
      /\ ev.stops > 0 => pc = "returned"

\* C20: the stages run in the order authentication, course resolution,
\* assignment resolution, submission, optional grade poll, release; a stage
\* starts only when the one before it ended without a failure; after a
\* failure the run goes to release and no later stage runs (no file is
\* attached or uploaded after CourseNotFound or AssignmentNotFound); the
\* grade poll starts only if notify_when_graded is set and only after the
\* upload confirmation was activated.
C20_StageOrder ==
    /\ []StageState
    /\ [][StageStep]_vars

C20_Witness ==
    /\ args.cmd = "submit" /\ pc = "returned" /\ raised = NoError
    /\ poll = "found" /\ ev.stops = 1 /\ ev.upload_clicks = 1
    /\ ev.course_scans = 1 /\ ev.link_scans = 1

C20_WitnessNotFound ==
    /\ args.cmd = "submit" /\ pc = "returned" /\ raised = AssignmentNotFound
    /\ ev.stops = 1 /\ ev.attaches = 0


\* C21: while a non-fresh run's durable context is live its profile directory
\* exists and no other run holds a durable context on it: no constructor or
\* cleanup of another run has removed it, no other run has opened it.
C21_ProfileExclusive ==
    (args.cmd = "submit" /\ ~FreshRun /\ DurableLive) =>
      /\ session_dir
      /\ other.context # "durable"

\* C21, the part that holds: two durable contexts are never live on the
\* profile directory at once.
C21_NeverOpenedTwice ==
    ~(DurableLive /\ other.context = "durable")

C21_Witness ==
    /\ DurableLive /\ other.pc = "returned" /\ ~other.fresh_login
    /\ other.context = "none" /\ pc = "attach"


\* the errors the run states in words of its own
NamedErrors ==
    { ManualLoginTimeout, CourseNotFound, AssignmentNotFound, NoSubmitControl,
      NoPriorSubmissionExists, SessionInterrupted, ConnectionLost }

\* submit_to_gradescope is over (or in its finally clause) with an exception
SubmitFailed == args.cmd = "submit" /\ Ended /\ raised # NoError

\* C22 as stated: every exception that leaves submit_to_gradescope is one of
\* the named errors; no raw timeout of a wait reaches the caller.
C22_OnlyNamedErrors ==
    SubmitFailed => raised \in NamedErrors

\* C22, amended: an exception that leaves the try block is a named error or
\* the very exception the failing call raised; closures are renamed, the
\* manual wait's failure is the manual-login error, and a timeout of any
\* other wait leaves as it was raised.  Before the try block nothing is
\* renamed at all.
C22_NamedOrRaw ==
    SubmitFailed =>
      /\ raised \in NamedErrors \cup {ev.last_error}
      /\ ~ev.in_try => raised = ev.last_error
      /\ (ev.in_try /\ ev.last_error = TimeoutError) =>
            raised = (IF ev.failed_at = "manual_wait" THEN ManualLoginTimeout
                      ELSE TimeoutError)
      /\ (ev.in_try /\ ev.failed_at # "manual_wait" /\ In(TargetClosedError, ev.last_error))
            => raised = SessionInterrupted

\* a wait of the login form timed out and the caller gets the raw timeout
C22_Witness ==
    /\ SubmitFailed /\ pc = "returned" /\ ev.in_try
    /\ ev.failed_at = "fill" /\ raised = TimeoutError

C22_WitnessUpload ==
    /\ SubmitFailed /\ pc = "returned"
    /\ ev.failed_at = "click_upload" /\ raised = TimeoutError


\* the stages of a run: probe, login, resolution, submission, poll, and the
\* wait for the operator
StagePcs ==
    {"check_session", "try"} \cup LoginPcs \cup
    {"find_course", "find_assignment", "start_submission", "select_upload",
     "wait_file_input", "attach", "click_upload", "poll", "poll_sleep", "await_enter"}

\* C23: a run launches at most one session (a durable context without a
\* browser handle, or one browser with one context), opens at most one page
\* on it and never has two pages open; every stage, the probe included, runs
\* with that one launched session and that one page.
C23_OneSession ==
    args.cmd = "submit" =>
      /\ ev.launches <= 1 /\ ev.pages_made <= 1 /\ ev.max_pages <= 1
      /\ context_pages <= 1
      /\ context # "none" => (ev.launches = 1 /\ (durable <=> browser = "None"))
      /\ context = "none" => (browser = "None" /\ context_pages = 0)
      /\ pc \in StagePcs => (ev.launches = 1 /\ ev.pages_made = 1)

C23_Witness ==
    /\ args.cmd = "submit" /\ pc = "poll" /\ ev.probes = 1
    /\ ev.launches = 1 /\ ev.pages_made = 1 /\ context_pages = 1 /\ durable


\* the run failed between starting the driver and entering the try block
FailedBeforeTry ==
    /\ args.cmd = "submit" /\ pc = "returned" /\ ~ev.in_try
    /\ ev.failed_at \in {"launch", "new_page"}

\* C24: when the launch after the driver start, or the opening of the
\* working page, fails, the driver has been stopped and no context is left
\* open by the time the failure reaches the caller.
C24_ReleasedOnEarlyFailure ==
    FailedBeforeTry =>
      /\ playwright # "started" /\ ev.stops = 1
      /\ context # "open"


\* the step through the finally clause of submit_to_gradescope
C25_ReleaseStep ==
    (pc = "finally" /\ pc' = "returned") =>
      /\ raised' = raised
      /\ course_label' = course_label /\ assignment_label' = assignment_label
      /\ ev'.stops = ev.stops + 1
      /\ ev'.failed_at = ev.failed_at /\ ev'.submitted = ev.submitted

C25_WitnessFailure ==
    /\ SubmitReturned /\ ev.close_failed
    /\ ev.failed_at = "find_course" /\ raised = CourseNotFound /\ ev.stops = 1


\* C27: a manual-login run, whatever its fresh-login flag, has a fresh
\* SessionManager: the profile directory is gone once the submitter is
\* constructed, the context is not durable, the probe is never made; and when
\* started from the command line it runs non-headless whatever the headless
\* flag, so a completed submission waits for the operator.
C27_ManualRunIsFresh ==
    (args.cmd = "submit" /\ args.manual_login /\ Constructed) =>
      /\ sm_fresh_login
      /\ ~session_dir
      /\ ~durable /\ (context # "none" => browser # "None")
      /\ ev.probes = 0 /\ pc # "check_session"
      /\ args.entry = "cli" =>
            /\ ~self_headless
            /\ (Ended /\ ev.submitted) => ev.enter_waits = 1

C27_Witness ==
    /\ args.cmd = "submit" /\ args.manual_login /\ ~args.fresh_login
    /\ args.entry = "cli" /\ args.headless
    /\ ev.had_dir /\ ~session_dir /\ pc = "await_enter" /\ context = "open"


\* a headless run of submit_to_gradescope has been started
HeadlessRun == args.cmd = "submit" /\ self_headless /\ Constructed

\* the driver was stopped once and the session closed once, by the run or by
\* whoever closed the browser
SessionReleased == ev.stops = 1 /\ ev.closes + ev.ext_closes = 1

\* C26: a headless run whose waits all end comes to its end, with a result
\* or an error, and with the session released.
C26_TerminatesReleased ==
    HeadlessRun ~> (pc = "returned" /\ SessionReleased)

\* C26, the part that holds: a headless run whose waits all end comes to its
\* end; no stage loops for ever.
C26_Terminates ==
    HeadlessRun ~> (pc = "returned")

\* a headless run that polled to the last attempt and returned
C26_Witness ==
    /\ HeadlessRun /\ pc = "returned" /\ poll = "timed_out" /\ raised = NoError


\* the assignment was resolved by the button fallback on the course page
ResolvedByButton == ev.scanned = "button" /\ ev.link_href = 0 /\ ev.button_idx > 0

\* C28: when the assignment was resolved by the button fallback, the control
\* the run activates (and uploads through) is the very button whose label
\* matched the query, never the button of another assignment on the page.
C28_ControlOfResolvedAssignment ==
    (args.cmd = "submit" /\ ResolvedByButton /\ ev.control # "none") =>
      ev.control_idx = ev.button_idx

\* the fallback resolved a button and that button was the one activated
C28_WitnessOwn ==
    /\ ResolvedByButton /\ ev.control = "submit" /\ ev.control_idx = ev.button_idx
    /\ ev.submitted


\* C29: CourseNotFound is raised only when no card's label contains the
\* course query, AssignmentNotFound only when no link's and no button's label
\* contains the assignment query (empty queries and empty labels included);
\* the labels a completed run returns contain their queries.
C29_NotFoundOnlyWithoutMatch ==
    args.cmd = "submit" =>
      /\ (Ended /\ raised = CourseNotFound) => CourseCandidates = {}
      /\ (Ended /\ raised = AssignmentNotFound) =>
            (LinkCandidates = {} /\ ButtonCandidates(CurrentButtons) = {})
      /\ (pc = "returned" /\ raised = NoError /\ ev.submitted) =>
            /\ ContainsCI(course_label, args.course)
            /\ ContainsCI(assignment_label, args.assignment)

\* the course search failed although a card's label contains the query
C29_WitnessEmptyLabel ==
    /\ Ended /\ raised = CourseNotFound /\ CourseCandidates # {}
    /\ ev.course_href # 0


\* the step that ends the wait for the operator
C30_EnterStep ==
    (pc = "await_enter" /\ pc' # pc) =>
      /\ ev'.enter_waits = ev.enter_waits + 1
      /\ pc' = "finally"
      /\ UNCHANGED session

\* C30: a non-headless run that has submitted (and polled, when asked to)
\* waits for the operator: while it waits nothing is released and nothing is
\* returned, and it reaches its finally clause only through the end of that
\* wait; a headless run never waits; a run that failed before the upload was
\* confirmed never waits.
C30_EnterBeforeRelease ==
    /\ [][C30_EnterStep]_vars
    /\ [](args.cmd = "submit" =>
            /\ ev.enter_waits <= 1
            /\ pc = "await_enter" =>
                  /\ ~self_headless /\ ev.submitted /\ raised = NoError
                  /\ ev.enter_waits = 0 /\ ev.stops = 0 /\ ev.closes = 0
                  /\ args.notify_when_graded => poll \in {"found", "timed_out", "stopped"}
            /\ (Ended /\ ev.submitted /\ ~self_headless) => ev.enter_waits = 1
            /\ self_headless => (ev.enter_waits = 0 /\ pc # "await_enter")
            /\ (Ended /\ ~ev.submitted) => ev.enter_waits = 0)

\* a non-headless run polled, waited for the operator and returned
C30_Witness ==
    /\ args.cmd = "submit" /\ ~self_headless /\ args.notify_when_graded
    /\ pc = "returned" /\ poll = "found" /\ ev.enter_waits = 1
    /\ raised = NoError /\ ev.stops = 1

\* a headless run returned without waiting
C30_WitnessHeadless ==
    /\ args.cmd = "submit" /\ self_headless /\ pc = "returned"
    /\ ev.submitted /\ ev.enter_waits = 0 /\ raised = NoError

\* a non-headless run failed and was released without waiting
C30_WitnessFailure ==
    /\ args.cmd = "submit" /\ ~self_headless /\ pc = "returned"
    /\ ev.failed_at = "attach" /\ ev.enter_waits = 0 /\ ev.stops = 1

====
